---------------------------- MODULE Spec2Model ----------------------------
(***************************************************************************)
(* A model of metrics_ipc_collector: the MessagePack wire codec            *)
(* (src/src/events.rs), the producer-side recorders                        *)
(* (src/src/recorder/socket.rs, src/src/recorder/unnamed_pipe.rs) and the  *)
(* collector-side listeners (src/src/collector/socket.rs,                  *)
(* src/src/collector/unnamed_pipe.rs), in both builds of the crate: the    *)
(* thread-based one and the one built with the "tokio" feature.            *)
(*                                                                         *)
(* Bytes are the integers 0..255.  A string is the sequence of its UTF-8   *)
(* bytes.  A u64 and an f64 are both the tuple of their 8 big-endian       *)
(* bytes, which keeps every number of the model inside TLC's integers and  *)
(* makes the encoder's choice of the shortest integer form explicit.       *)
(***************************************************************************)
EXTENDS Integers, Sequences, FiniteSets, TLC

(***************************************************************************)
(* Protocol strings, as bytes.                                             *)
(***************************************************************************)
\* "type", the tag of MetricEvent (#[serde(tag = "type")]).
S_type == <<116, 121, 112, 101>>
\* "metric" and "metadata", the variant names (rename_all = "lowercase").
S_metric == <<109, 101, 116, 114, 105, 99>>
S_metadata == <<109, 101, 116, 97, 100, 97, 116, 97>>
\* "name" and "labels", the fields of MetricData.
S_name == <<110, 97, 109, 101>>
S_labels == <<108, 97, 98, 101, 108, 115>>
\* "operation" and "value", tag and content of MetricOperation.
S_operation == <<111, 112, 101, 114, 97, 116, 105, 111, 110>>
S_value == <<118, 97, 108, 117, 101>>
\* "kind", "description", "unit": the other fields of MetricMetadata.
S_kind == <<107, 105, 110, 100>>
S_description == <<100, 101, 115, 99, 114, 105, 112, 116, 105, 111, 110>>
S_unit == <<117, 110, 105, 116>>

\* The variants of MetricOperation and their wire names (snake_case).
OpNames ==
    [ increment_counter |-> <<105, 110, 99, 114, 101, 109, 101, 110, 116, 95,
                              99, 111, 117, 110, 116, 101, 114>>,
      set_counter       |-> <<115, 101, 116, 95, 99, 111, 117, 110, 116, 101, 114>>,
      increment_gauge   |-> <<105, 110, 99, 114, 101, 109, 101, 110, 116, 95,
                              103, 97, 117, 103, 101>>,
      decrement_gauge   |-> <<100, 101, 99, 114, 101, 109, 101, 110, 116, 95,
                              103, 97, 117, 103, 101>>,
      set_gauge         |-> <<115, 101, 116, 95, 103, 97, 117, 103, 101>>,
      record_histogram  |-> <<114, 101, 99, 111, 114, 100, 95, 104, 105, 115,
                              116, 111, 103, 114, 97, 109>> ]

Ops == DOMAIN OpNames

\* The operations that carry a u64; the others carry an f64.
CounterOps == {"increment_counter", "set_counter"}

\* The variants of MetricKind and their wire names.
KindNames ==
    [ Counter   |-> <<67, 111, 117, 110, 116, 101, 114>>,
      Gauge     |-> <<71, 97, 117, 103, 101>>,
      Histogram |-> <<72, 105, 115, 116, 111, 103, 114, 97, 109>> ]

Kinds == DOMAIN KindNames

\* The frame terminator, b'\n'.
Terminator == 10

(***************************************************************************)
(* Numbers: 8 big-endian bytes.                                            *)
(***************************************************************************)
U64(b) == <<0, 0, 0, 0, 0, 0, 0, b>>

U64Max == <<255, 255, 255, 255, 255, 255, 255, 255>>

\* f64 bit patterns of the values used as inputs.
F64_42 == <<64, 69, 0, 0, 0, 0, 0, 0>>
F64_3_25 == <<64, 10, 0, 0, 0, 0, 0, 0>>
F64_zero == <<0, 0, 0, 0, 0, 0, 0, 0>>
F64_neg1_5 == <<191, 248, 0, 0, 0, 0, 0, 0>>

(***************************************************************************)
(* Events.  A MetricEvent is one of                                        *)
(*   [type |-> "metric", name, labels, op, value]                          *)
(*   [type |-> "metadata", name, kind, description, unit]                  *)
(* labels is a function from keys to values (a BTreeMap); unit is <<>>     *)
(* (None) or <<s>> (Some(s)).                                              *)
(***************************************************************************)
Metric(name, labels, op, value) ==
    [type |-> "metric", name |-> name, labels |-> labels, op |-> op,
     value |-> value]

Metadata(name, kind, description, unit) ==
    [type |-> "metadata", name |-> name, kind |-> kind,
     description |-> description, unit |-> unit]

NoLabels == [k \in {} |-> <<>>]

(***************************************************************************)
(* Encoding: rmp_serde::to_vec.  Structs are written as arrays, a struct   *)
(* with a flattened field as a map; every integer takes its shortest form. *)
(***************************************************************************)
\* rmp::encode::write_str: fixstr below 32 bytes, str8 below 256.
EncStr(s) ==
    IF Len(s) < 32 THEN <<160 + Len(s)>> \o s ELSE <<217, Len(s)>> \o s

\* write_uint as it would be if it never wrote more than 32 bits.
EncU64Narrow(v) ==
    IF \A i \in 1..7 : v[i] = 0
    THEN IF v[8] < 128 THEN <<v[8]>> ELSE <<204, v[8]>>
    ELSE IF \A i \in 1..6 : v[i] = 0 THEN <<205, v[7], v[8]>>
    ELSE <<206, v[5], v[6], v[7], v[8]>>

\* rmp::encode::write_uint: positive fixint, u8, u16, u32 or u64.
EncU64(v) ==
    IF \A i \in 1..7 : v[i] = 0
    THEN IF v[8] < 128 THEN <<v[8]>> ELSE <<204, v[8]>>
    ELSE IF \A i \in 1..6 : v[i] = 0 THEN <<205, v[7], v[8]>>
    ELSE IF \A i \in 1..4 : v[i] = 0 THEN <<206, v[5], v[6], v[7], v[8]>>
    ELSE <<207>> \o v

\* rmp::encode::write_f64: the marker 0xcb and the 8 bytes.
EncF64(v) == <<203>> \o v

\* The order of two strings as Rust's Ord for String: bytewise lexicographic.
RECURSIVE StrLess(_, _)
StrLess(a, b) ==
    IF b = <<>> THEN FALSE
    ELSE IF a = <<>> THEN TRUE
    ELSE IF a[1] # b[1] THEN a[1] < b[1]
    ELSE StrLess(Tail(a), Tail(b))

\* The keys of a BTreeMap in iteration order.
RECURSIVE SortedKeys(_)
SortedKeys(keys) ==
    IF keys = {} THEN <<>>
    ELSE LET m == CHOOSE k \in keys : \A o \in keys \ {k} : StrLess(k, o)
         IN <<m>> \o SortedKeys(keys \ {m})

RECURSIVE EncPairs(_, _)
EncPairs(labels, ks) ==
    IF ks = <<>> THEN <<>>
    ELSE EncStr(ks[1]) \o EncStr(labels[ks[1]]) \o EncPairs(labels, Tail(ks))

\* A BTreeMap<String, String>: a map header and the pairs in key order.
EncLabels(labels) ==
    <<128 + Cardinality(DOMAIN labels)>>
        \o EncPairs(labels, SortedKeys(DOMAIN labels))

EncOpValue(op, value) ==
    IF op \in CounterOps THEN EncU64(value) ELSE EncF64(value)

\* MetricEvent::Metric: the map {type, name, labels, operation, value}.
EncMetric(d) ==
    <<133>> \o EncStr(S_type) \o EncStr(S_metric)
            \o EncStr(S_name) \o EncStr(d.name)
            \o EncStr(S_labels) \o EncLabels(d.labels)
            \o EncStr(S_operation) \o EncStr(OpNames[d.op])
            \o EncStr(S_value) \o EncOpValue(d.op, d.value)

\* MetricEvent::Metadata: the array [tag, name, kind, description(, unit)];
\* an absent unit is skipped (skip_serializing_if), shortening the array.
EncMetadata(m) ==
    <<144 + 4 + Len(m.unit)>> \o EncStr(S_metadata)
            \o EncStr(m.name) \o EncStr(KindNames[m.kind])
            \o EncStr(m.description)
            \o (IF m.unit = <<>> THEN <<>> ELSE EncStr(m.unit[1]))

\* TryFrom<MetricEvent> for Vec<u8>.
Encode(e) == IF e.type = "metric" THEN EncMetric(e) ELSE EncMetadata(e)

\* The frame write_event puts on the transport.
Frame(e) == Encode(e) \o <<Terminator>>

(***************************************************************************)
(* Decoding: rmp_serde::from_slice.  The bytes are first read as one       *)
(* MessagePack value (serde buffers an internally tagged enum as Content); *)
(* bytes after that value are not looked at.  The value is then matched    *)
(* against MetricEvent.                                                    *)
(*                                                                         *)
(* A parsed value is [ok, t, v, rest]: t is "int" (v: 8 bytes), "f64"      *)
(* (v: 8 bytes), "str" (v: bytes), "nil", "arr" (v: the elements) or "map" *)
(* (v: keys and values alternating).  Markers no frame of this model       *)
(* starts a value with (negative integers, bin, ext, f32, the 16- and      *)
(* 32-bit string, array and map headers) are reported as an error.         *)
(***************************************************************************)
ParseFail == [ok |-> FALSE, t |-> "nil", v |-> <<>>, rest |-> <<>>]

Parsed(t, v, rest) == [ok |-> TRUE, t |-> t, v |-> v, rest |-> rest]

\* n bytes after the marker, or a failure when the input is shorter.
TakeBytes(t, b, skip, n) ==
    IF Len(b) < skip + n THEN ParseFail
    ELSE Parsed(t, SubSeq(b, skip + 1, skip + n), SubSeq(b, skip + n + 1, Len(b)))

\* An unsigned integer of n bytes, widened to 8.
TakeUInt(b, n) ==
    IF Len(b) < 1 + n THEN ParseFail
    ELSE Parsed("int", [i \in 1..8 |-> IF i <= 8 - n THEN 0 ELSE b[1 + i - (8 - n)]],
                SubSeq(b, n + 2, Len(b)))

RECURSIVE ParseValue(_)
RECURSIVE ParseItems(_, _)
ParseItems(b, n) ==
    IF n = 0 THEN Parsed("arr", <<>>, b)
    ELSE LET h == ParseValue(b)
         IN IF ~h.ok THEN ParseFail
            ELSE LET r == ParseItems(h.rest, n - 1)
                 IN IF ~r.ok THEN ParseFail
                    ELSE Parsed("arr", <<[t |-> h.t, v |-> h.v]>> \o r.v, r.rest)

ParseValue(b) ==
    IF b = <<>> THEN ParseFail
    ELSE LET m == b[1]
         IN IF m < 128 THEN Parsed("int", U64(m), Tail(b))
            ELSE IF m < 144
                 THEN LET r == ParseItems(Tail(b), 2 * (m - 128))
                      IN IF r.ok THEN Parsed("map", r.v, r.rest) ELSE ParseFail
            ELSE IF m < 160 THEN ParseItems(Tail(b), m - 144)
            ELSE IF m < 192 THEN TakeBytes("str", b, 1, m - 160)
            ELSE IF m = 192 THEN Parsed("nil", <<>>, Tail(b))
            ELSE IF m = 203 THEN TakeBytes("f64", b, 1, 8)
            ELSE IF m = 204 THEN TakeUInt(b, 1)
            ELSE IF m = 205 THEN TakeUInt(b, 2)
            ELSE IF m = 206 THEN TakeUInt(b, 4)
            ELSE IF m = 207 THEN TakeUInt(b, 8)
            ELSE IF m = 217
                 THEN IF Len(b) < 2 THEN ParseFail
                      ELSE TakeBytes("str", b, 2, b[2])
            ELSE ParseFail

DecodeFail == [ok |-> FALSE]

Decoded(e) == [ok |-> TRUE, ev |-> e]

IsStr(c) == c.t = "str"

\* The positions (of the keys) at which a map holds the string key k.
KeyAt(items, k) ==
    {i \in 1..Len(items) : i % 2 = 1 /\ IsStr(items[i]) /\ items[i].v = k}

\* The value of the one entry with key k; asked only when there is one.
ValueOf(items, k) == items[(CHOOSE i \in KeyAt(items, k) : TRUE) + 1]

\* The name a variant or kind goes by, from its wire name.
NameIn(table, c) ==
    IF IsStr(c) /\ \E n \in DOMAIN table : table[n] = c.v
    THEN <<CHOOSE n \in DOMAIN table : table[n] = c.v>>
    ELSE <<>>

\* A BTreeMap<String, String> from a map value: every key and value a
\* string, a repeated key keeping its last value.
LabelsOk(c) == c.t = "map" /\ \A i \in 1..Len(c.v) : IsStr(c.v[i])

LabelsOf(c) ==
    [k \in {c.v[i].v : i \in {j \in 1..Len(c.v) : j % 2 = 1}} |->
        LET last == CHOOSE i \in KeyAt(c.v, k) : \A j \in KeyAt(c.v, k) : j <= i
        IN c.v[last + 1].v]

\* MetricData (flattened MetricOperation) from the entries of a map: each
\* of name, labels, operation and value exactly once, other keys ignored.
\* An integer where an f64 is expected would be converted by serde; no
\* encoder output holds one and the model reports it as an error.
DecodeMetricData(items) ==
    IF \E k \in {S_name, S_labels, S_operation, S_value} :
           Cardinality(KeyAt(items, k)) # 1
    THEN DecodeFail
    ELSE LET n  == ValueOf(items, S_name)
             l  == ValueOf(items, S_labels)
             op == NameIn(OpNames, ValueOf(items, S_operation))
             v  == ValueOf(items, S_value)
         IN IF ~IsStr(n) \/ ~LabelsOk(l) \/ op = <<>> THEN DecodeFail
            ELSE IF v.t # (IF op[1] \in CounterOps THEN "int" ELSE "f64")
                 THEN DecodeFail
            ELSE Decoded(Metric(n.v, LabelsOf(l), op[1], v.v))

\* MetricMetadata from the elements of an array, by position: all four
\* fields must be there (a missing element is an invalid-length error).
DecodeMetadataSeq(items) ==
    IF Len(items) # 4 THEN DecodeFail
    ELSE LET kind == NameIn(KindNames, items[2])
         IN IF ~IsStr(items[1]) \/ kind = <<>> \/ ~IsStr(items[3])
               \/ items[4].t \notin {"str", "nil"}
            THEN DecodeFail
            ELSE Decoded(Metadata(items[1].v, kind[1], items[3].v,
                                  IF items[4].t = "nil" THEN <<>>
                                  ELSE <<items[4].v>>))

\* MetricMetadata from the entries of a map, by name: unit may be missing.
DecodeMetadataMap(items) ==
    IF \/ \E k \in {S_name, S_kind, S_description} :
              Cardinality(KeyAt(items, k)) # 1
       \/ Cardinality(KeyAt(items, S_unit)) > 1
    THEN DecodeFail
    ELSE LET n    == ValueOf(items, S_name)
             kind == NameIn(KindNames, ValueOf(items, S_kind))
             d    == ValueOf(items, S_description)
             u    == IF KeyAt(items, S_unit) = {} THEN [t |-> "nil", v |-> <<>>]
                     ELSE ValueOf(items, S_unit)
         IN IF ~IsStr(n) \/ kind = <<>> \/ ~IsStr(d) \/ u.t \notin {"str", "nil"}
            THEN DecodeFail
            ELSE Decoded(Metadata(n.v, kind[1], d.v,
                                  IF u.t = "nil" THEN <<>> ELSE <<u.v>>))

\* The entries of a map without the entry at key position i.
WithoutEntry(items, i) == SubSeq(items, 1, i - 1) \o SubSeq(items, i + 2, Len(items))

\* MetricEvent from a parsed value: the tag "type" names the variant, in a
\* map by key and in an array as the first element.
DecodeEvent(c) ==
    IF c.t = "map"
    THEN IF Cardinality(KeyAt(c.v, S_type)) # 1 THEN DecodeFail
         ELSE LET i   == CHOOSE j \in KeyAt(c.v, S_type) : TRUE
                  tag == c.v[i + 1]
              IN IF ~IsStr(tag) THEN DecodeFail
                 ELSE IF tag.v = S_metric
                      THEN DecodeMetricData(WithoutEntry(c.v, i))
                 ELSE IF tag.v = S_metadata
                      THEN DecodeMetadataMap(WithoutEntry(c.v, i))
                 ELSE DecodeFail
    ELSE IF c.t = "arr" /\ Len(c.v) >= 1 /\ IsStr(c.v[1])
    THEN IF c.v[1].v = S_metadata THEN DecodeMetadataSeq(Tail(c.v))
         ELSE DecodeFail
    ELSE DecodeFail

\* TryFrom<&Vec<u8>> for MetricEvent.
Decode(b) ==
    LET c == ParseValue(b)
    IN IF c.ok THEN DecodeEvent(c) ELSE DecodeFail

(***************************************************************************)
(* The data path: producers writing frames, the transport, the collector's *)
(* read loops and the bridge.                                              *)
(***************************************************************************)
\* Connections: named-channel connections, or the one pipe (connection 1).
NConns == 2

NPipes == 2
\* Threads calling instrument methods; caller k uses connection ConnOf(k).
NCallers == 3
\* Update and describe calls made in one behaviour, over all callers.
MaxCalls == 2

MaxTornCalls == 3
\* Frames a foreign writer puts on a connection in one behaviour.
MaxInject == 1
\* Bytes the transport buffers between the writer and the reader.
Cap == 100
\* Producer processes, and the build calls made in one behaviour.
NProcs == 2
MaxBuilds == 3
\* Connection attempts that fail in accept in one behaviour.
MaxAcceptErrs == 2

Conns == 1..NConns

Pipes == 1..NPipes

Callers == 1..NCallers

Procs == 1..NProcs

ConnOf(k) == ((k - 1) % NConns) + 1

CallersOf(c) == {k \in Callers : ConnOf(k) = c}

Builds == {"thread", "tokio"}

Transports == {"socket", "pipe"}

\* "requests", {"route": "/a"}.
N_requests == <<114, 101, 113, 117, 101, 115, 116, 115>>
L_route == [k \in {<<114, 111, 117, 116, 101>>} |-> <<47, 97>>]
\* "queue_size".
N_queue == <<113, 117, 101, 117, 101, 95, 115, 105, 122, 101>>

E_inc1 == Metric(N_requests, L_route, "increment_counter", U64(1))
E_inc3 == Metric(N_requests, L_route, "increment_counter", U64(3))
E_gauge == Metric(N_queue, NoLabels, "set_gauge", F64_3_25)

\* The events a call can emit.
CallEvents == {E_inc1, E_inc3, E_gauge}

\* A frame that is no encoded event: 0xc1 is no MessagePack marker.
Garbage == [type |-> "garbage"]
GarbageFrame == <<193, 193, Terminator>>

\* The bytes of an entry of the log of frames written to a connection.
FrameOf(x) == IF x.type = "garbage" THEN GarbageFrame ELSE Frame(x)

VARIABLES
    build,       \* "thread", or "tokio" (the crate built with that feature)
    transport,   \* "socket" (named channel) or "pipe"
    wire,        \* per connection: bytes written and not yet read
    pend,        \* per connection: bytes read and not yet returned in a frame
    rstate,      \* per connection: its read loop, "pending", "running", "stopped"
    sendOpen,    \* per connection: the producer still holds its end
    fault,       \* per connection: reads of the transport fail
    errs,        \* per connection: reads that returned an error (0, 1, 2 = more)
    lock,        \* per connection: the caller holding the endpoint Mutex, or 0
    cpc,         \* per caller: "idle", "lock", "payload", "term"
    cev,         \* per caller: <<e>>, the event of its call, or <<>>
    crem,        \* per caller: bytes its write_all has still to write
    ncalls,      \* calls made so far
    ninject,     \* foreign frames written so far
    called,      \* per connection: the events of the calls made, in call order
    overlap,     \* per connection: a call began while another was running
    sent,        \* per connection: the frames begun, in the order of writing
    stream,      \* per connection: every byte ever written to the endpoint
    dispatched   \* per connection: the events handed to the bridge

VARIABLES
    namespaced,  \* GenericNamespaced::is_supported()
    fileAt,      \* a file exists at /tmp/<name>
    removable,   \* std::fs::remove_file of /tmp/<name> succeeds
    bindable,    \* the name resolves and the listener can be created
    started,     \* what start_collecting returned: "none", "Ok", "Err"
    lpc,         \* the listener thread or task: "none", "spawned",
                 \* "listening", "failed", "exited", "abandoned"
    installed,   \* per producer process: a global recorder is set
    results,     \* per producer process: what its build calls returned
    opened,      \* connections opened to the listener
    via,         \* per producer process: the kind of each of its build calls
    endpoint,    \* per producer process: what its recorder writes to: its
                 \* kind ("none", "pipe", "socket") and connection number
    acceptErrs   \* connection attempts the listener failed to accept

VARIABLES
    cIn,         \* the event given to the codec
    cBytes,      \* <<b>>, the bytes the encoder made of it, or <<>>
    cOut,        \* <<r>>, what the decoder made of the frame, or <<>>
    cBack        \* <<r>>, what the decoder made of the bytes alone, or <<>>

cfgVars == <<build, transport>>

dataVars == <<wire, pend, rstate, sendOpen, fault, errs, lock, cpc, cev, crem,
              ncalls, ninject, called, overlap, sent, stream, dispatched>>

lifeVars == <<namespaced, fileAt, removable, bindable, started, lpc,
              installed, results, opened, via, endpoint, acceptErrs>>

VARIABLES
    kFirst,      \* the labels of a metrics::Key, a sequence of <<key, value>>
    kSecond,     \* the same labels in some order
    kOp,         \* the operation and value of the update made on both keys
    kFrames      \* the frames push_metric made of the two keys so far

VARIABLES
    pmade,       \* per pipe: IPCPipeCollector::new has created it
    pheld,       \* per pipe: the objects holding one of its ends that can
                 \* still be used
    precorder    \* the pipe the process-wide recorder writes to, or 0

VARIABLES
    bFrom,       \* where the bridge's event comes from: an event decoded from
                 \* the wire, or a describe call made on a recorder
    bPc,         \* "start", "event" (decoded), "lost" (not decoded), "done"
    bEv,         \* <<e>>, the event handed to the bridge, or <<>>
    bCalls       \* the calls the bridge made on the metrics facade

codecVars == <<cIn, cBytes, cOut, cBack>>

keyVars == <<kFirst, kSecond, kOp, kFrames>>

pipeVars == <<pmade, pheld, precorder>>

bridgeVars == <<bFrom, bPc, bEv, bCalls>>

VARIABLES
    handles,     \* per connection: the instrument handles its recorder gave out
    updates      \* per connection: the update calls made on its handles

recVars == <<handles, updates>>

vars == <<cfgVars, dataVars, lifeVars, codecVars, keyVars, pipeVars, bridgeVars, recVars>>

ActiveConns == IF transport = "pipe" THEN {1} ELSE Conns

ActiveCallers == {k \in Callers : ConnOf(k) \in ActiveConns}

DataInit ==
    /\ wire = [c \in Conns |-> <<>>]
    /\ pend = [c \in Conns |-> <<>>]
    /\ rstate = [c \in Conns |-> "pending"]
    /\ sendOpen = [c \in Conns |-> TRUE]
    /\ fault = [c \in Conns |-> FALSE]
    /\ errs = [c \in Conns |-> 0]
    /\ lock = [c \in Conns |-> 0]
    /\ cpc = [k \in Callers |-> "idle"]
    /\ cev = [k \in Callers |-> <<>>]
    /\ crem = [k \in Callers |-> <<>>]
    /\ ncalls = 0
    /\ ninject = 0
    /\ called = [c \in Conns |-> <<>>]
    /\ overlap = [c \in Conns |-> FALSE]
    /\ sent = [c \in Conns |-> <<>>]
    /\ stream = [c \in Conns |-> <<>>]
    /\ dispatched = [c \in Conns |-> <<>>]

NoEndpoint == [kind |-> "none", conn |-> 0]

PipeEndpoint == [kind |-> "pipe", conn |-> 0]

SocketEndpoint(n) == [kind |-> "socket", conn |-> n]

\* A collector listening on a platform with namespaced names.
LifeIdle ==
    /\ namespaced = TRUE
    /\ fileAt = FALSE
    /\ removable = TRUE
    /\ bindable = TRUE
    /\ started = "Ok"
    /\ lpc = "listening"
    /\ installed = [p \in Procs |-> FALSE]
    /\ results = [p \in Procs |-> <<>>]
    /\ opened = 0
    /\ via = [p \in Procs |-> <<>>]
    /\ endpoint = [p \in Procs |-> NoEndpoint]
    /\ acceptErrs = 0

CodecIdle ==
    /\ cIn = E_inc1
    /\ cBytes = <<>>
    /\ cOut = <<>>
    /\ cBack = <<>>

KeyIdle ==
    /\ kFirst = <<>>
    /\ kSecond = <<>>
    /\ kOp = [op |-> "increment_counter", value |-> U64(1)]
    /\ kFrames = <<<<>>, <<>>>>

BridgeIdle ==
    /\ bFrom = [by |-> "wire", ev |-> E_inc1]
    /\ bPc = "start"
    /\ bEv = <<>>
    /\ bCalls = <<>>

RecIdle ==
    /\ handles = [c \in Conns |-> <<>>]
    /\ updates = [c \in Conns |-> <<>>]

PipeIdle ==
    /\ pmade = [q \in Pipes |-> FALSE]
    /\ pheld = [q \in Pipes |-> {}]
    /\ precorder = 0

\* Producers connected (or holding the pipe's send end), nothing written;
\* the collector has not yet accepted (or started reading the pipe).
Init ==
    /\ build \in Builds
    /\ transport \in Transports
    /\ DataInit
    /\ LifeIdle
    /\ CodecIdle
    /\ KeyIdle
    /\ PipeIdle
    /\ BridgeIdle
    /\ RecIdle

(***************************************************************************)
(* Producer: Handle::push_metric / register_metric and write_event.        *)
(***************************************************************************)
\* The pipe recorder built with tokio calls the async write_event and drops
\* the future it returns without polling it: the call does nothing.
WriteIsDropped == transport = "pipe" /\ build = "tokio"

\* An update or describe call, one of at most max: the event is built and
\* encoded, and the caller goes on to take the endpoint's lock.
CallBody(k, e, max) ==
    /\ k \in ActiveCallers
    /\ cpc[k] = "idle"
    /\ sendOpen[ConnOf(k)]
    /\ ncalls < max
    /\ ncalls' = ncalls + 1
    /\ called' = [called EXCEPT ![ConnOf(k)] = Append(@, e)]
    /\ overlap' = [overlap EXCEPT ![ConnOf(k)] =
                       @ \/ \E j \in CallersOf(ConnOf(k)) \ {k} : cpc[j] # "idle"]
    /\ IF WriteIsDropped
       THEN UNCHANGED <<cpc, cev, crem>>
       ELSE /\ cpc' = [cpc EXCEPT ![k] = "lock"]
            /\ cev' = [cev EXCEPT ![k] = <<e>>]
            /\ crem' = [crem EXCEPT ![k] = Encode(e)]
    /\ UNCHANGED <<wire, pend, rstate, sendOpen, fault, errs, lock, ninject,
                   sent, stream, dispatched>>

CallUpTo(k, e, max) ==
    /\ CallBody(k, e, max)
    /\ UNCHANGED <<cfgVars, lifeVars, codecVars, keyVars, pipeVars, bridgeVars, recVars>>

Call(k, e) == CallUpTo(k, e, MaxCalls)

\* The lock a caller may take: stream.lock() waits while another holds it.
LockFree(c) == lock[c] = 0

\* stream.lock().unwrap().
Lock(k) ==
    /\ cpc[k] = "lock"
    /\ LockFree(ConnOf(k))
    /\ lock' = [lock EXCEPT ![ConnOf(k)] = k]
    /\ cpc' = [cpc EXCEPT ![k] = "payload"]
    /\ sent' = [sent EXCEPT ![ConnOf(k)] = Append(@, cev[k][1])]
    /\ UNCHANGED <<wire, pend, rstate, sendOpen, fault, errs, cev, crem, ncalls,
                   ninject, called, overlap, stream, dispatched>>
    /\ UNCHANGED <<cfgVars, lifeVars, codecVars, keyVars, pipeVars, bridgeVars, recVars>>

Min(a, b) == IF a < b THEN a ELSE b

\* The recorder's stream does not block: IPCSocketRecorderBuilder::build
\* sets it non-blocking; the pipe's send end blocks.
NonBlocking == transport = "socket"

\* A caller that, leaving write_event, goes back to write its event again.
LeaveToRetry(k) ==
    /\ lock' = [lock EXCEPT ![ConnOf(k)] = 0]
    /\ cpc' = [cpc EXCEPT ![k] = "lock"]
    /\ UNCHANGED <<cev, crem>>

\* The caller leaves write_event: the guard is dropped, the result ignored.
Leave(k) ==
    /\ lock' = [lock EXCEPT ![ConnOf(k)] = 0]
    /\ cpc' = [cpc EXCEPT ![k] = "idle"]
    /\ cev' = [cev EXCEPT ![k] = <<>>]
    /\ crem' = [crem EXCEPT ![k] = <<>>]

\* write_all(&bytes) and write_all(b"\n"), then flush: as many bytes as the
\* transport takes are written; what is left makes a non-blocking stream
\* fail (WouldBlock, `?` returns) and a blocking one wait.  A write to a
\* transport whose reader is gone fails (BrokenPipe).
WriteAll(k) ==
    LET c == ConnOf(k)
        n == Min(Len(crem[k]), Cap - Len(wire[c]))
        left == SubSeq(crem[k], n + 1, Len(crem[k]))
    IN /\ cpc[k] \in {"payload", "term"}
       /\ IF rstate[c] = "stopped"
          THEN /\ Leave(k)
               /\ UNCHANGED <<wire, stream>>
          ELSE /\ NonBlocking \/ n > 0
               /\ wire' = [wire EXCEPT ![c] = @ \o SubSeq(crem[k], 1, n)]
               /\ stream' = [stream EXCEPT ![c] = @ \o SubSeq(crem[k], 1, n)]
               /\ IF left # <<>>
                  THEN IF NonBlocking
                       THEN Leave(k)
                       ELSE /\ crem' = [crem EXCEPT ![k] = left]
                            /\ UNCHANGED <<lock, cpc, cev>>
                  ELSE IF cpc[k] = "payload"
                       THEN /\ cpc' = [cpc EXCEPT ![k] = "term"]
                            /\ crem' = [crem EXCEPT ![k] = <<Terminator>>]
                            /\ UNCHANGED <<lock, cev>>
                       ELSE Leave(k)
       /\ UNCHANGED <<pend, rstate, sendOpen, fault, errs, ncalls, ninject,
                      called, overlap, sent, dispatched>>
       /\ UNCHANGED <<cfgVars, lifeVars, codecVars, keyVars, pipeVars, bridgeVars, recVars>>

\* The producer process ends (or drops its recorder): its end is closed.
CloseSend(c) ==
    /\ c \in ActiveConns
    /\ sendOpen[c]
    /\ \A k \in Callers : ConnOf(k) = c => cpc[k] = "idle"
    /\ sendOpen' = [sendOpen EXCEPT ![c] = FALSE]
    /\ UNCHANGED <<wire, pend, rstate, fault, errs, lock, cpc, cev, crem,
                   ncalls, ninject, called, overlap, sent, stream, dispatched>>
    /\ UNCHANGED <<cfgVars, lifeVars, codecVars, keyVars, pipeVars, bridgeVars, recVars>>

\* The producer process ends while a call on the connection is inside
\* write_event: its threads stop where they are and its end is closed.
Kill(c) ==
    /\ c \in ActiveConns
    /\ sendOpen[c]
    /\ \E k \in CallersOf(c) : cpc[k] # "idle"
    /\ sendOpen' = [sendOpen EXCEPT ![c] = FALSE]
    /\ lock' = [lock EXCEPT ![c] = 0]
    /\ cpc' = [k \in Callers |-> IF ConnOf(k) = c THEN "idle" ELSE cpc[k]]
    /\ cev' = [k \in Callers |-> IF ConnOf(k) = c THEN <<>> ELSE cev[k]]
    /\ crem' = [k \in Callers |-> IF ConnOf(k) = c THEN <<>> ELSE crem[k]]
    /\ UNCHANGED <<wire, pend, rstate, fault, errs, ncalls, ninject, called,
                   overlap, sent, stream, dispatched>>
    /\ UNCHANGED <<cfgVars, lifeVars, codecVars, keyVars, pipeVars, bridgeVars, recVars>>

\* A writer that does not speak the protocol puts one frame on the
\* connection, between the frames of the producer.
Inject(c) ==
    /\ c \in ActiveConns
    /\ sendOpen[c]
    /\ rstate[c] # "stopped"
    /\ LockFree(c)
    /\ ninject < MaxInject
    /\ Len(wire[c]) + Len(GarbageFrame) <= Cap
    /\ ninject' = ninject + 1
    /\ wire' = [wire EXCEPT ![c] = @ \o GarbageFrame]
    /\ stream' = [stream EXCEPT ![c] = @ \o GarbageFrame]
    /\ sent' = [sent EXCEPT ![c] = Append(@, Garbage)]
    /\ UNCHANGED <<pend, rstate, sendOpen, fault, errs, lock, cpc, cev, crem,
                   ncalls, called, overlap, dispatched>>
    /\ UNCHANGED <<cfgVars, lifeVars, codecVars, keyVars, pipeVars, bridgeVars, recVars>>

(***************************************************************************)
(* Collector: the accept loop and the per-connection read loops of         *)
(* run_collector, and the bridge.                                          *)
(***************************************************************************)
HasTerm(b) == \E i \in 1..Len(b) : b[i] = Terminator

FirstTerm(b) ==
    CHOOSE i \in 1..Len(b) : b[i] = Terminator /\ \A j \in 1..(i - 1) : b[j] # Terminator

\* The thread-based named-channel listener makes its streams non-blocking
\* (ListenerNonblockingMode::Both): a read with nothing to read is an error.
ReaderNonBlocking == build = "thread" /\ transport = "socket"

\* match MetricEvent::try_from(&buffer): a decoded event goes to
\* handle_metadata_event or handle_metric_event, an error is traced.
Bridge(c, buffer) ==
    LET d == Decode(buffer)
    IN dispatched' = [dispatched EXCEPT ![c] = IF d.ok THEN Append(@, d.ev) ELSE @]

\* Accept as it would be with the read loop run by the accept loop itself
\* (no thread::spawn / task::spawn): a connection is taken only when no
\* other is being read.
AcceptInline(c) ==
    /\ c \in ActiveConns
    /\ rstate[c] = "pending"
    /\ \A d \in ActiveConns \ {c} : rstate[d] # "running"
    /\ rstate' = [rstate EXCEPT ![c] = "running"]
    /\ UNCHANGED <<wire, pend, sendOpen, fault, errs, lock, cpc, cev, crem,
                   ncalls, ninject, called, overlap, sent, stream, dispatched>>
    /\ UNCHANGED <<cfgVars, lifeVars, codecVars, keyVars, pipeVars, bridgeVars, recVars>>

\* The listener yields the connection and gives it its own read loop; in
\* pipe mode, start_collecting gives the receive end its read loop.
Accept(c) ==
    /\ c \in ActiveConns
    /\ rstate[c] = "pending"
    /\ rstate' = [rstate EXCEPT ![c] = "running"]
    /\ UNCHANGED <<wire, pend, sendOpen, fault, errs, lock, cpc, cev, crem,
                   ncalls, ninject, called, overlap, sent, stream, dispatched>>
    /\ UNCHANGED <<cfgVars, lifeVars, codecVars, keyVars, pipeVars, bridgeVars, recVars>>

\* One turn of the loop in which read_until finds the terminator: Ok(n).
\* The BufReader reads the transport only when it holds no terminator.
ReadFrame(c) ==
    LET fromWire == ~HasTerm(pend[c])
        avail == IF fromWire THEN pend[c] \o wire[c] ELSE pend[c]
    IN /\ rstate[c] = "running"
       /\ ~fault[c]
       /\ HasTerm(avail)
       /\ Bridge(c, SubSeq(avail, 1, FirstTerm(avail)))
       /\ pend' = [pend EXCEPT ![c] = SubSeq(avail, FirstTerm(avail) + 1, Len(avail))]
       /\ wire' = [wire EXCEPT ![c] = IF fromWire THEN <<>> ELSE @]
       /\ UNCHANGED <<rstate, sendOpen, fault, errs, lock, cpc, cev, crem,
                      ncalls, ninject, called, overlap, sent, stream>>
       /\ UNCHANGED <<cfgVars, lifeVars, codecVars, keyVars, pipeVars, bridgeVars, recVars>>

\* What a read loop keeps of the bytes read_until took before the stream
\* ran dry: a blocking or awaited read_until goes on with them; on a
\* non-blocking stream it returns Err(WouldBlock), the loop goes to its
\* next turn and buffer.clear() drops them.
KeptPartial(c) == IF ReaderNonBlocking THEN <<>> ELSE pend[c] \o wire[c]

\* read_until takes what there is and finds no terminator in it.
ReadPartial(c) ==
    /\ rstate[c] = "running"
    /\ ~fault[c]
    /\ sendOpen[c]
    /\ ~HasTerm(pend[c] \o wire[c])
    /\ IF ReaderNonBlocking THEN pend[c] \o wire[c] # <<>> ELSE wire[c] # <<>>
    /\ pend' = [pend EXCEPT ![c] = KeptPartial(c)]
    /\ wire' = [wire EXCEPT ![c] = <<>>]
    /\ UNCHANGED <<rstate, sendOpen, fault, errs, lock, cpc, cev, crem, ncalls,
                   ninject, called, overlap, sent, stream, dispatched>>
    /\ UNCHANGED <<cfgVars, lifeVars, codecVars, keyVars, pipeVars, bridgeVars, recVars>>

\* ReadEof as it would be with a loop that does not break on Ok(0).
ReadEofContinue(c) ==
    LET rest == pend[c] \o wire[c]
    IN /\ rstate[c] = "running"
       /\ ~fault[c]
       /\ ~sendOpen[c]
       /\ ~HasTerm(rest)
       /\ IF rest = <<>>
          THEN UNCHANGED dispatched
          ELSE Bridge(c, rest)
       /\ UNCHANGED rstate
       /\ pend' = [pend EXCEPT ![c] = <<>>]
       /\ wire' = [wire EXCEPT ![c] = <<>>]
       /\ UNCHANGED <<sendOpen, fault, errs, lock, cpc, cev, crem, ncalls,
                      ninject, called, overlap, sent, stream>>
       /\ UNCHANGED <<cfgVars, lifeVars, codecVars, keyVars, pipeVars, bridgeVars, recVars>>

\* The producer's end is closed and no terminator is left to find:
\* read_until returns what it has, Ok(n) with n > 0 (the bytes are decoded
\* like a frame), and then Ok(0), on which the loop breaks.
ReadEof(c) ==
    LET rest == pend[c] \o wire[c]
    IN /\ rstate[c] = "running"
       /\ ~fault[c]
       /\ ~sendOpen[c]
       /\ ~HasTerm(rest)
       /\ IF rest = <<>>
          THEN /\ rstate' = [rstate EXCEPT ![c] = "stopped"]
               /\ UNCHANGED dispatched
          ELSE /\ Bridge(c, rest)
               /\ UNCHANGED rstate
       /\ pend' = [pend EXCEPT ![c] = <<>>]
       /\ wire' = [wire EXCEPT ![c] = <<>>]
       /\ UNCHANGED <<sendOpen, fault, errs, lock, cpc, cev, crem, ncalls,
                      ninject, called, overlap, sent, stream>>
       /\ UNCHANGED <<cfgVars, lifeVars, codecVars, keyVars, pipeVars, bridgeVars, recVars>>

\* The read loop's arm for Err(e): the pipe collector logs and breaks, the
\* named-channel collector does nothing and goes to the next turn.
AfterReadError(c) == IF transport = "pipe" THEN "stopped" ELSE rstate[c]

\* A read of a failed transport returns an error.
ReadError(c) ==
    /\ rstate[c] = "running"
    /\ fault[c]
    /\ errs' = [errs EXCEPT ![c] = Min(@ + 1, 2)]
    /\ rstate' = [rstate EXCEPT ![c] = AfterReadError(c)]
    /\ UNCHANGED <<wire, pend, sendOpen, fault, lock, cpc, cev, crem, ncalls,
                   ninject, called, overlap, sent, stream, dispatched>>
    /\ UNCHANGED <<cfgVars, lifeVars, codecVars, keyVars, pipeVars, bridgeVars, recVars>>

\* The transport of one connection fails (a reset, an I/O error).
Fault(c) ==
    /\ c \in ActiveConns
    /\ rstate[c] = "running"
    /\ ~fault[c]
    /\ fault' = [fault EXCEPT ![c] = TRUE]
    /\ UNCHANGED <<wire, pend, rstate, sendOpen, errs, lock, cpc, cev, crem,
                   ncalls, ninject, called, overlap, sent, stream, dispatched>>
    /\ UNCHANGED <<cfgVars, lifeVars, codecVars, keyVars, pipeVars, bridgeVars, recVars>>

\* The data path with every event of CallEvents and a foreign frame.
Next ==
    \/ \E k \in Callers, e \in CallEvents : Call(k, e)
    \/ \E k \in Callers : Lock(k)
    \/ \E k \in Callers : WriteAll(k)
    \/ \E c \in Conns : CloseSend(c)
    \/ \E c \in Conns : Inject(c)
    \/ \E c \in Conns : Accept(c)
    \/ \E c \in Conns : ReadFrame(c)
    \/ \E c \in Conns : ReadPartial(c)
    \/ \E c \in Conns : ReadEof(c)

Spec == Init /\ [][Next]_vars

\* The data path with one event and producers that end at any point.
EofNext ==
    \/ \E k \in Callers : Call(k, E_inc1)
    \/ \E k \in Callers : Lock(k)
    \/ \E k \in Callers : WriteAll(k)
    \/ \E c \in Conns : CloseSend(c)
    \/ \E c \in Conns : Kill(c)
    \/ \E c \in Conns : Accept(c)
    \/ \E c \in Conns : ReadFrame(c)
    \/ \E c \in Conns : ReadPartial(c)
    \/ \E c \in Conns : ReadEof(c)

EofSpec == Init /\ [][EofNext]_vars

\* One connection of the named channel whose producer makes up to
\* MaxTornCalls calls, enough to fill the transport and write again once
\* the collector has read.
TornEvents == {E_inc1, E_inc3}

TornNext ==
    \/ \E k \in CallersOf(1), e \in TornEvents : CallUpTo(k, e, MaxTornCalls)
    \/ \E k \in Callers : Lock(k)
    \/ \E k \in Callers : WriteAll(k)
    \/ Accept(1)
    \/ ReadFrame(1)
    \/ ReadPartial(1)

TornStart ==
    /\ build \in Builds
    /\ transport = "socket"
    /\ DataInit
    /\ LifeIdle
    /\ CodecIdle
    /\ KeyIdle
    /\ PipeIdle
    /\ BridgeIdle
    /\ RecIdle

TornSpec == TornStart /\ [][TornNext]_vars

\* The data path with one event and failing transports.
FaultNext ==
    \/ \E k \in Callers : Call(k, E_inc1)
    \/ \E k \in Callers : Lock(k)
    \/ \E k \in Callers : WriteAll(k)
    \/ \E c \in Conns : Accept(c)
    \/ \E c \in Conns : ReadFrame(c)
    \/ \E c \in Conns : ReadPartial(c)
    \/ \E c \in Conns : Fault(c)
    \/ \E c \in Conns : ReadError(c)

FaultSpec == Init /\ [][FaultNext]_vars

(***************************************************************************)
(* The accept loop with failing connection attempts, and the scheduling of *)
(* the listener and of the read loops: each has a thread or task of its    *)
(* own.                                                                    *)
(***************************************************************************)
\* The listener after an accept failure, had the error been returned with ?.
AcceptErrorEndsListener == "failed"

\* incoming().filter_map(filter_streams) / if let Ok(stream) = accept(): a
\* failed accept is dropped and the loop takes its next turn.
AfterAcceptError == lpc

\* A connection attempt fails in accept.
AcceptError ==
    /\ transport = "socket"
    /\ lpc = "listening"
    /\ acceptErrs < MaxAcceptErrs
    /\ acceptErrs' = acceptErrs + 1
    /\ lpc' = AfterAcceptError
    /\ UNCHANGED <<namespaced, fileAt, removable, bindable, started, installed,
                   results, opened, via, endpoint>>
    /\ UNCHANGED <<cfgVars, dataVars, codecVars, keyVars, pipeVars, bridgeVars, recVars>>

\* A turn of the accept loop that yields a connection.
AcceptConn(c) == lpc = "listening" /\ Accept(c)

\* read_until of the read loop of c can return a frame: the condition under
\* which ReadFrame(c) can be taken.
FrameWaits(c) ==
    /\ rstate[c] = "running"
    /\ ~fault[c]
    /\ HasTerm(pend[c] \o wire[c])

ServeNext ==
    \/ \E k \in Callers : Call(k, E_inc1)
    \/ \E k \in Callers : Lock(k)
    \/ \E k \in Callers : WriteAll(k)
    \/ AcceptError
    \/ \E c \in Conns : AcceptConn(c)
    \/ \E c \in Conns : ReadFrame(c)
    \/ \E c \in Conns : ReadPartial(c)

\* The listener and every read loop run on a thread or task of their own
\* and are scheduled again and again; producers may stop at any point.
ServeFair ==
    \A c \in Conns :
        /\ WF_vars(AcceptConn(c))
        /\ ([]<>~FrameWaits(c)) \/ ([]<><<ReadFrame(c)>>_vars)

ServeSpec == Init /\ [][ServeNext]_vars /\ ServeFair

(***************************************************************************)
(* The life of the named-channel collector: start_collecting, the listener *)
(* thread or task around run_collector, and producers building recorders.  *)
(***************************************************************************)
LifeInit ==
    /\ namespaced \in BOOLEAN
    /\ fileAt \in BOOLEAN
    /\ removable \in BOOLEAN
    /\ bindable \in BOOLEAN
    /\ started = "none"
    /\ lpc = "none"
    /\ installed = [p \in Procs |-> FALSE]
    /\ results = [p \in Procs |-> <<>>]
    /\ opened = 0
    /\ via = [p \in Procs |-> <<>>]
    /\ endpoint = [p \in Procs |-> NoEndpoint]
    /\ acceptErrs = 0

\* What start_collecting returns once the stale file is dealt with: the
\* listener is created later, on the spawned thread or task.
StartReturns == "Ok"

\* A start_collecting that goes on to spawn the listener when the stale
\* file could not be removed.
StartIgnoresRemoval ==
    /\ started = "none"
    /\ fileAt' = (fileAt /\ ~removable)
    /\ lpc' = "spawned"
    /\ started' = "Ok"
    /\ UNCHANGED <<namespaced, removable, bindable, installed, results, opened,
                   via, endpoint, acceptErrs>>
    /\ UNCHANGED <<cfgVars, dataVars, codecVars, keyVars, pipeVars, bridgeVars, recVars>>

\* IPCSocketCollector::start_collecting: an existing /tmp/<name> is removed
\* (an error of the removal is returned), the listener thread or task is
\* spawned, Ok(()) is returned.
StartCollecting ==
    /\ started = "none"
    /\ IF fileAt /\ ~removable
       THEN /\ started' = "Err"
            /\ UNCHANGED <<fileAt, lpc>>
       ELSE /\ fileAt' = FALSE
            /\ lpc' = "spawned"
            /\ started' = StartReturns
    /\ UNCHANGED <<namespaced, removable, bindable, installed, results, opened,
                   via, endpoint, acceptErrs>>
    /\ UNCHANGED <<cfgVars, dataVars, codecVars, keyVars, pipeVars, bridgeVars, recVars>>

\* run_collector up to the accept loop: the name is resolved and the
\* listener created, which binds a file unless names are namespaced; a
\* failure returns Err to the closure that called run_collector.
ListenerBind ==
    /\ lpc = "spawned"
    /\ IF bindable /\ (namespaced \/ ~fileAt)
       THEN /\ lpc' = "listening"
            /\ fileAt' = IF namespaced THEN fileAt ELSE TRUE
       ELSE /\ lpc' = "failed"
            /\ UNCHANGED fileAt
    /\ UNCHANGED <<namespaced, removable, bindable, started, installed, results,
                   opened, via, endpoint, acceptErrs>>
    /\ UNCHANGED <<cfgVars, dataVars, codecVars, keyVars, pipeVars, bridgeVars, recVars>>

\* The closure after run_collector returned: the error is logged and
\* /tmp/<name> removed, a failure of the removal ignored.
ListenerCleanup ==
    /\ lpc = "failed"
    /\ lpc' = "exited"
    /\ fileAt' = (fileAt /\ ~removable)
    /\ UNCHANGED <<namespaced, removable, bindable, started, installed, results,
                   opened, via, endpoint, acceptErrs>>
    /\ UNCHANGED <<cfgVars, dataVars, codecVars, keyVars, pipeVars, bridgeVars, recVars>>

\* What is left at /tmp/<name> when the listener thread or task ends
\* without returning from run_collector (the process exits or is killed,
\* the task is dropped): the removal after run_collector is not reached.
FileAfterAbandon == fileAt

\* The collector's process stops while the listener runs.
Abandon ==
    /\ lpc \in {"spawned", "listening", "failed"}
    /\ lpc' = "abandoned"
    /\ fileAt' = FileAfterAbandon
    /\ UNCHANGED <<namespaced, removable, bindable, started, installed, results,
                   opened, via, endpoint, acceptErrs>>
    /\ UNCHANGED <<cfgVars, dataVars, codecVars, keyVars, pipeVars, bridgeVars, recVars>>

\* A build whose recorder takes the place of the one set before.
BuildReplaces(p) ==
    IF lpc # "listening" THEN "Io" ELSE "Ok"

\* A build that goes on to set the recorder whether or not it connected.
BuildConnectsAnyway(p) ==
    IF installed[p] THEN "Recorder" ELSE "Ok"

\* IPCSocketRecorderBuilder::build in process p: connect (an error is
\* returned), set the stream non-blocking, set the global recorder (an
\* error is returned when one is set already; the new connection is dropped).
BuildResult(p) ==
    IF lpc # "listening" THEN "Io"
    ELSE IF installed[p] THEN "Recorder"
    ELSE "Ok"

BuildsMade ==
    Cardinality({x \in Procs \X (1..MaxBuilds) : x[2] <= Len(results[x[1]])})

Build(p) ==
    /\ BuildsMade < MaxBuilds
    /\ results' = [results EXCEPT ![p] = Append(@, BuildResult(p))]
    /\ via' = [via EXCEPT ![p] = Append(@, "socket")]
    /\ installed' = [installed EXCEPT ![p] = @ \/ BuildResult(p) = "Ok"]
    /\ opened' = IF BuildResult(p) = "Io" THEN opened ELSE opened + 1
    /\ endpoint' = IF BuildResult(p) = "Ok"
                   THEN [endpoint EXCEPT ![p] = SocketEndpoint(opened + 1)]
                   ELSE endpoint
    /\ UNCHANGED <<namespaced, fileAt, removable, bindable, started, lpc, acceptErrs>>
    /\ UNCHANGED <<cfgVars, dataVars, codecVars, keyVars, pipeVars, bridgeVars, recVars>>

\* IPCPipeRecorder::build in process p with a send end it holds: the global
\* recorder is set (an error is returned when one is set already; the send
\* end is dropped with the recorder that was not installed).
PipeBuildResult(p) ==
    IF installed[p] THEN "Recorder" ELSE "Ok"

BuildPipe(p) ==
    /\ BuildsMade < MaxBuilds
    /\ results' = [results EXCEPT ![p] = Append(@, PipeBuildResult(p))]
    /\ via' = [via EXCEPT ![p] = Append(@, "pipe")]
    /\ installed' = [installed EXCEPT ![p] = TRUE]
    /\ endpoint' = IF PipeBuildResult(p) = "Ok"
                   THEN [endpoint EXCEPT ![p] = PipeEndpoint]
                   ELSE endpoint
    /\ UNCHANGED <<namespaced, fileAt, removable, bindable, started, lpc, opened,
                   acceptErrs>>
    /\ UNCHANGED <<cfgVars, dataVars, codecVars, keyVars, pipeVars, bridgeVars, recVars>>

LifeNext ==
    \/ StartCollecting
    \/ ListenerBind
    \/ ListenerCleanup
    \/ Abandon
    \/ \E p \in Procs : Build(p)
    \/ \E p \in Procs : BuildPipe(p)

\* Before start_collecting, on any platform and with or without a stale file.
LifeStart ==
    /\ build \in Builds
    /\ transport = "socket"
    /\ DataInit
    /\ LifeInit
    /\ CodecIdle
    /\ KeyIdle
    /\ PipeIdle
    /\ BridgeIdle
    /\ RecIdle

LifeSpec == LifeStart /\ [][LifeNext]_vars

(***************************************************************************)
(* The codec on its own: an event is encoded, and the frame decoded the    *)
(* way the read loops decode it, terminator included.                      *)
(***************************************************************************)
\* "r" and "a\nb".
N_r == <<114>>
N_anb == <<97, Terminator, 98>>
\* {"a": "x", "b": "y"}.
L_two == [k \in {<<97>>, <<98>>} |-> IF k = <<97>> THEN <<120>> ELSE <<121>>]
\* "count".
U_count == <<99, 111, 117, 110, 116>>

CodecNames == {N_r, N_anb}

CodecU64 == {U64(0), U64(1), U64(10), U64(200), <<0, 0, 0, 0, 0, 0, 10, 0>>, U64Max}

CodecF64 == {F64_42, F64_3_25, F64_zero, F64_neg1_5}

CodecEvents ==
    {Metric(n, l, op, v) : n \in CodecNames, l \in {NoLabels, L_route, L_two},
                           op \in CounterOps, v \in CodecU64}
    \cup {Metric(n, l, op, v) : n \in CodecNames, l \in {NoLabels, L_route, L_two},
                                op \in Ops \ CounterOps, v \in CodecF64}
    \cup {Metadata(n, k, d, u) : n \in CodecNames, k \in Kinds,
                                 d \in {<<>>, N_anb}, u \in {<<>>, <<U_count>>}}

CodecEncode ==
    /\ cBytes = <<>>
    /\ cBytes' = <<Encode(cIn)>>
    /\ UNCHANGED <<cIn, cOut, cBack>>
    /\ UNCHANGED <<cfgVars, dataVars, lifeVars, keyVars, pipeVars, bridgeVars, recVars>>

CodecDecode ==
    /\ cBytes # <<>>
    /\ cOut = <<>>
    /\ cOut' = <<Decode(cBytes[1] \o <<Terminator>>)>>
    /\ UNCHANGED <<cIn, cBytes, cBack>>
    /\ UNCHANGED <<cfgVars, dataVars, lifeVars, keyVars, pipeVars, bridgeVars, recVars>>

\* MetricEvent::try_from of the encoder's bytes, nothing appended.
CodecRoundTrip ==
    /\ cBytes # <<>>
    /\ cBack = <<>>
    /\ cBack' = <<Decode(cBytes[1])>>
    /\ UNCHANGED <<cIn, cBytes, cOut>>
    /\ UNCHANGED <<cfgVars, dataVars, lifeVars, keyVars, pipeVars, bridgeVars, recVars>>

CodecNext == CodecEncode \/ CodecDecode \/ CodecRoundTrip

\* An event of CodecEvents is about to be encoded.
CodecStart ==
    /\ build = "thread"
    /\ transport = "socket"
    /\ DataInit
    /\ LifeIdle
    /\ cIn \in CodecEvents
    /\ cBytes = <<>>
    /\ cOut = <<>>
    /\ cBack = <<>>
    /\ KeyIdle
    /\ PipeIdle
    /\ BridgeIdle
    /\ RecIdle

CodecSpec == CodecStart /\ [][CodecNext]_vars

(***************************************************************************)
(* Handle::push_metric on its own: the labels of the key are collected     *)
(* into the BTreeMap of a MetricData, which is encoded and framed.         *)
(***************************************************************************)
MaxLabels == 3

LabelKeys == {<<97>>, <<98>>, <<99>>}

LabelValues == {<<120>>, <<121>>}

LabelPairs == LabelKeys \X LabelValues

LabelSeqs == UNION {[1..n -> LabelPairs] : n \in 0..MaxLabels}

\* The orders in which the labels of s can be given.
Orders(s) ==
    {[i \in 1..Len(s) |-> s[p[i]]] : p \in Permutations(1..Len(s))}

KeyOps ==
    {[op |-> "increment_counter", value |-> U64(1)],
     [op |-> "set_gauge", value |-> F64_neg1_5]}

\* A map that keeps only the first label given.
CollectHead(pairs) ==
    [k \in {pairs[i][1] : i \in DOMAIN pairs \cap {1}} |-> pairs[1][2]]

\* Iterator::collect into a BTreeMap: one entry per key, holding the value
\* of the last label given with that key.
Collect(pairs) ==
    [k \in {pairs[i][1] : i \in DOMAIN pairs} |->
        LET last == CHOOSE i \in DOMAIN pairs :
                        /\ pairs[i][1] = k
                        /\ \A j \in DOMAIN pairs : pairs[j][1] = k => j <= i
        IN pairs[last][2]]

\* The bytes write_event writes for an update of a key with these labels.
PushedFrame(name, pairs, op, value) ==
    Frame(Metric(name, Collect(pairs), op, value))

PushMetric(i) ==
    /\ kFrames[i] = <<>>
    /\ kFrames' = [kFrames EXCEPT ![i] =
                      <<PushedFrame(N_requests, IF i = 1 THEN kFirst ELSE kSecond,
                                    kOp.op, kOp.value)>>]
    /\ UNCHANGED <<kFirst, kSecond, kOp>>
    /\ UNCHANGED <<cfgVars, dataVars, lifeVars, codecVars, pipeVars, bridgeVars, recVars>>

KeyNext == \E i \in {1, 2} : PushMetric(i)

\* Two keys with the same labels, given in two orders.
KeyStart ==
    /\ build \in Builds
    /\ transport = "socket"
    /\ DataInit
    /\ LifeIdle
    /\ CodecIdle
    /\ kFirst \in LabelSeqs
    /\ kSecond \in Orders(kFirst)
    /\ kOp \in KeyOps
    /\ kFrames = <<<<>>, <<>>>>
    /\ PipeIdle
    /\ BridgeIdle
    /\ RecIdle

KeySpec == KeyStart /\ [][KeyNext]_vars

(***************************************************************************)
(* The ends of an unnamed pipe and the objects that hold them.  Every      *)
(* operation takes the object it works on by value.                        *)
(***************************************************************************)
\* The holders of the send end: the Sender that IPCPipeCollector::new
\* returns, the OwnedFd or OwnedHandle it is turned into, the PipeSender
\* made from that, and the installed IPCPipeRecorder.
SendEnds == {"sender", "handle", "imported", "recorder"}

\* The holders of the receive end: the IPCPipeCollector and its read loop.
RecvEnds == {"collector", "loop"}

\* IPCPipeCollector::new: pipe() makes the two ends; the collector holds
\* the receiver and the sender is returned beside it.
NewPipe(q) ==
    /\ ~pmade[q]
    /\ pmade' = [pmade EXCEPT ![q] = TRUE]
    /\ pheld' = [pheld EXCEPT ![q] = {"collector", "sender"}]
    /\ UNCHANGED precorder
    /\ UNCHANGED <<cfgVars, dataVars, lifeVars, codecVars, keyVars, bridgeVars, recVars>>

\* start_collecting(self): the receiver is moved out of the collector and
\* into the thread or task that runs run_collector.
PipeStartCollecting(q) ==
    /\ "collector" \in pheld[q]
    /\ pheld' = [pheld EXCEPT ![q] = (@ \ {"collector"}) \cup {"loop"}]
    /\ UNCHANGED <<pmade, precorder>>
    /\ UNCHANGED <<cfgVars, dataVars, lifeVars, codecVars, keyVars, bridgeVars, recVars>>

\* An export that leaves the Sender usable beside the handle.
ExportBorrows(h) == h \cup {"handle"}

\* sender.into() / sender.try_into(): the Sender is moved into the handle.
Exported(h) == (h \ {"sender"}) \cup {"handle"}

ExportHandle(q) ==
    /\ "sender" \in pheld[q]
    /\ pheld' = [pheld EXCEPT ![q] = Exported(@)]
    /\ UNCHANGED <<pmade, precorder>>
    /\ UNCHANGED <<cfgVars, dataVars, lifeVars, codecVars, keyVars, bridgeVars, recVars>>

\* PipeSender::from(handle) / try_from(handle): the handle is moved into
\* the new PipeSender.
ImportHandle(q) ==
    /\ "handle" \in pheld[q]
    /\ pheld' = [pheld EXCEPT ![q] = (@ \ {"handle"}) \cup {"imported"}]
    /\ UNCHANGED <<pmade, precorder>>
    /\ UNCHANGED <<cfgVars, dataVars, lifeVars, codecVars, keyVars, bridgeVars, recVars>>

\* IPCPipeRecorder::build(sender) with the Sender or the imported
\* PipeSender: it is moved into the recorder, which is installed, or
\* dropped with it when a recorder is installed already.
BuildOn(q, s) ==
    /\ s \in {"sender", "imported"}
    /\ s \in pheld[q]
    /\ IF precorder = 0
       THEN /\ precorder' = q
            /\ pheld' = [pheld EXCEPT ![q] = (@ \ {s}) \cup {"recorder"}]
       ELSE /\ pheld' = [pheld EXCEPT ![q] = @ \ {s}]
            /\ UNCHANGED precorder
    /\ UNCHANGED pmade
    /\ UNCHANGED <<cfgVars, dataVars, lifeVars, codecVars, keyVars, bridgeVars, recVars>>

\* A collector, Sender, handle or PipeSender goes out of scope.
DropEnd(q, s) ==
    /\ s \in pheld[q] \ {"recorder", "loop"}
    /\ pheld' = [pheld EXCEPT ![q] = @ \ {s}]
    /\ UNCHANGED <<pmade, precorder>>
    /\ UNCHANGED <<cfgVars, dataVars, lifeVars, codecVars, keyVars, bridgeVars, recVars>>

PipeNext ==
    \E q \in Pipes :
        \/ NewPipe(q)
        \/ PipeStartCollecting(q)
        \/ ExportHandle(q)
        \/ ImportHandle(q)
        \/ \E s \in SendEnds : BuildOn(q, s)
        \/ \E s \in SendEnds \cup RecvEnds : DropEnd(q, s)

\* No pipe has been created.
PipeStart ==
    /\ build \in Builds
    /\ transport = "pipe"
    /\ DataInit
    /\ LifeIdle
    /\ CodecIdle
    /\ KeyIdle
    /\ PipeIdle
    /\ BridgeIdle
    /\ RecIdle

PipeSpec == PipeStart /\ [][PipeNext]_vars

(***************************************************************************)
(* The bridge: handle_metric_event and handle_metadata_event, and what a   *)
(* describe call on a recorder becomes on its way to them.                 *)
(***************************************************************************)
\* "bytes", a unit name, and "furlongs", none.
U_bytes == <<98, 121, 116, 101, 115>>
U_furlongs == <<102, 117, 114, 108, 111, 110, 103, 115>>

\* metrics::Unit::as_str for two of the units.
UnitStr == [Count |-> U_count, Bytes |-> U_bytes]

Units == DOMAIN UnitStr

\* metrics::Unit::from_string: the unit of that name, if there is one.
FromString(u) ==
    IF \E x \in Units : UnitStr[x] = u
    THEN <<CHOOSE x \in Units : UnitStr[x] = u>>
    ELSE <<>>

\* The labels of an event as the Vec of (key, value) the bridge collects
\* from the BTreeMap, in key order.
RECURSIVE LabelVec(_, _)
LabelVec(labels, ks) ==
    IF ks = <<>> THEN <<>>
    ELSE <<<<ks[1], labels[ks[1]]>>>> \o LabelVec(labels, Tail(ks))

\* An update of an instrument of the facade, with the macro's plain form
\* (name only) or its labeled form.
Update(instrument, method, m) ==
    IF DOMAIN m.labels = {}
    THEN [call |-> "update", instrument |-> instrument, method |-> method,
          name |-> m.name, form |-> "plain", labels |-> <<>>, value |-> m.value]
    ELSE [call |-> "update", instrument |-> instrument, method |-> method,
          name |-> m.name, form |-> "labeled",
          labels |-> LabelVec(m.labels, SortedKeys(DOMAIN m.labels)),
          value |-> m.value]

\* A bridge that takes SetCounter for an increment.
HandleMetricAdds(m) ==
    IF m.op \in CounterOps THEN Update("counter", "increment", m)
    ELSE IF m.op = "record_histogram" THEN Update("histogram", "record", m)
    ELSE Update("gauge", "set", m)

\* handle_metric_event: the arm of each operation.
HandleMetric(m) ==
    CASE m.op = "increment_counter" -> Update("counter", "increment", m)
      [] m.op = "set_counter"       -> Update("counter", "absolute", m)
      [] m.op = "increment_gauge"   -> Update("gauge", "increment", m)
      [] m.op = "decrement_gauge"   -> Update("gauge", "decrement", m)
      [] m.op = "set_gauge"         -> Update("gauge", "set", m)
      [] m.op = "record_histogram"  -> Update("histogram", "record", m)

\* A describe call of the facade, with the macro's form that takes a unit
\* or the one that takes none.
Describe(instrument, m, unit) ==
    IF unit # <<>>
    THEN [call |-> "describe", instrument |-> instrument, name |-> m.name,
          form |-> "unit", unit |-> unit, description |-> m.description]
    ELSE [call |-> "describe", instrument |-> instrument, name |-> m.name,
          form |-> "plain", unit |-> <<>>, description |-> m.description]

\* A bridge that describes with a unit whenever the event names one.
HandleMetadataAnyUnit(m) ==
    Describe(IF m.kind = "Counter" THEN "counter"
             ELSE IF m.kind = "Gauge" THEN "gauge" ELSE "histogram",
             m, IF m.unit = <<>> THEN <<>> ELSE <<"Count">>)

\* handle_metadata_event: the unit is looked up by name, then the arm of
\* the kind.
HandleMetadata(m) ==
    LET unit == IF m.unit = <<>> THEN <<>> ELSE FromString(m.unit[1])
    IN CASE m.kind = "Counter"   -> Describe("counter", m, unit)
         [] m.kind = "Gauge"     -> Describe("gauge", m, unit)
         [] m.kind = "Histogram" -> Describe("histogram", m, unit)

\* IPCSocketRecorder::register_metric / IPCPipeRecorder::register_metric:
\* the Metadata event of a describe call.
RegisterMetric(name, kind, unit, description) ==
    Metadata(name, kind, description,
             IF unit = <<>> THEN <<>> ELSE <<UnitStr[unit[1]]>>)

\* The events that can reach the bridge, from this or any other producer.
BridgeEvents ==
    {Metric(n, l, op, U64(1)) : n \in {N_requests, N_queue},
                                l \in {NoLabels, L_route, L_two}, op \in CounterOps}
    \cup {Metric(n, l, op, F64_neg1_5) : n \in {N_requests, N_queue},
                                         l \in {NoLabels, L_route, L_two},
                                         op \in Ops \ CounterOps}
    \cup {Metadata(n, k, d, u) : n \in {N_requests, N_queue}, k \in Kinds,
                                 d \in {<<>>, N_r},
                                 u \in {<<>>, <<U_count>>, <<U_bytes>>, <<U_furlongs>>}}

\* The describe calls made on a recorder.
DescribeCalls ==
    {[by |-> "describe", name |-> n, kind |-> k, unit |-> u, description |-> d] :
        n \in {N_requests, N_queue}, k \in Kinds,
        u \in {<<>>} \cup {<<x>> : x \in Units}, d \in {<<>>, N_r}}

\* The frame some producer wrote for an event: this crate's, or for a
\* Metadata event without a unit the array with nil in the unit's place.
WireFrame(e) ==
    IF e.type = "metadata" /\ e.unit = <<>>
    THEN <<149>> \o EncStr(S_metadata) \o EncStr(e.name)
             \o EncStr(KindNames[e.kind]) \o EncStr(e.description)
             \o <<192, Terminator>>
    ELSE Frame(e)

\* The read loop decodes a frame that holds the event.
Arrive ==
    /\ bPc = "start"
    /\ bFrom.by = "wire"
    /\ LET d == Decode(WireFrame(bFrom.ev))
       IN IF d.ok
          THEN bEv' = <<d.ev>> /\ bPc' = "event"
          ELSE bEv' = <<>> /\ bPc' = "lost"
    /\ UNCHANGED <<bFrom, bCalls>>
    /\ UNCHANGED <<cfgVars, dataVars, lifeVars, codecVars, keyVars, pipeVars, recVars>>

\* The describe call's event is encoded, framed, and decoded by the read
\* loop.
DescribeArrives ==
    /\ bPc = "start"
    /\ bFrom.by = "describe"
    /\ LET d == Decode(Frame(RegisterMetric(bFrom.name, bFrom.kind, bFrom.unit,
                                            bFrom.description)))
       IN IF d.ok
          THEN bEv' = <<d.ev>> /\ bPc' = "event"
          ELSE bEv' = <<>> /\ bPc' = "lost"
    /\ UNCHANGED <<bFrom, bCalls>>
    /\ UNCHANGED <<cfgVars, dataVars, lifeVars, codecVars, keyVars, pipeVars, recVars>>

\* The arm of the read loop for a decoded event.
Handle ==
    /\ bPc = "event"
    /\ bCalls' = Append(bCalls, IF bEv[1].type = "metric"
                                THEN HandleMetric(bEv[1])
                                ELSE HandleMetadata(bEv[1]))
    /\ bPc' = "done"
    /\ UNCHANGED <<bFrom, bEv>>
    /\ UNCHANGED <<cfgVars, dataVars, lifeVars, codecVars, keyVars, pipeVars, recVars>>

BridgeNext == Arrive \/ DescribeArrives \/ Handle

BridgeStart ==
    /\ build \in Builds
    /\ transport \in Transports
    /\ DataInit
    /\ LifeIdle
    /\ CodecIdle
    /\ KeyIdle
    /\ PipeIdle
    /\ bFrom \in {[by |-> "wire", ev |-> e] : e \in BridgeEvents} \cup DescribeCalls
    /\ bPc = "start"
    /\ bEv = <<>>
    /\ bCalls = <<>>
    /\ RecIdle

BridgeSpec == BridgeStart /\ [][BridgeNext]_vars

(***************************************************************************)
(* The recorder: describe_* and register_* of impl metrics::Recorder.      *)
(***************************************************************************)
MaxDescribes == 2

MaxHandles == 2

\* The describe calls a producer makes: each kind, with and without a unit.
Described ==
    {RegisterMetric(N_requests, k, u, N_r) : k \in Kinds, u \in {<<>>, <<"Count">>}}

\* describe_counter / describe_gauge / describe_histogram: register_metric
\* builds the Metadata event and calls write_event.
DescribeCall(k, e) == CallUpTo(k, e, MaxDescribes)

HandlesMade ==
    Cardinality({x \in Conns \X (1..MaxHandles) : x[2] <= Len(handles[x[1]])})

Instruments == {"counter", "gauge", "histogram"}

\* register_counter / register_gauge / register_histogram: a Handle with a
\* clone of the key and of the recorder's Arc of the endpoint.
RegisterCall(k, instrument, key) ==
    /\ k \in ActiveCallers
    /\ cpc[k] = "idle"
    /\ sendOpen[ConnOf(k)]
    /\ HandlesMade < MaxHandles
    /\ handles' = [handles EXCEPT ![ConnOf(k)] =
                       Append(@, [instrument |-> instrument, key |-> key,
                                  endpoint |-> ConnOf(k)])]
    /\ UNCHANGED updates
    /\ UNCHANGED <<cfgVars, dataVars, lifeVars, codecVars, keyVars, pipeVars,
                   bridgeVars>>

DescribeNext ==
    \/ \E k \in CallersOf(1), e \in Described : DescribeCall(k, e)
    \/ \E k \in CallersOf(1), i \in Instruments :
           RegisterCall(k, i, [name |-> N_requests, labels |-> <<>>])
    \/ \E k \in Callers : Lock(k)
    \/ \E k \in Callers : WriteAll(k)
    \/ Accept(1)
    \/ ReadFrame(1)
    \/ ReadPartial(1)

DescribeSpec == Init /\ [][DescribeNext]_vars

(***************************************************************************)
(* Instrument handles: the CounterFn, GaugeFn and HistogramFn of Handle.   *)
(***************************************************************************)
MaxUpdates == 2

\* The methods of each instrument, and the values they are called with.
Methods ==
    [counter |-> {"increment", "absolute"},
     gauge |-> {"increment", "decrement", "set"},
     histogram |-> {"record"}]

UpdateValues ==
    [counter |-> {U64(1)}, gauge |-> {F64_neg1_5}, histogram |-> {F64_42}]

\* The keys handles are registered with: no labels, and a=x, b=y.
HandleKeys ==
    {[name |-> N_requests, labels |-> <<>>],
     [name |-> N_queue, labels |-> <<<<<<97>>, <<120>>>>, <<<<98>>, <<121>>>>>>]}

\* The MetricOperation each method of CounterFn, GaugeFn and HistogramFn
\* passes to push_metric.
MethodOp(instrument, method) ==
    CASE instrument = "counter" /\ method = "increment" -> "increment_counter"
      [] instrument = "counter" /\ method = "absolute"  -> "set_counter"
      [] instrument = "gauge" /\ method = "increment"   -> "increment_gauge"
      [] instrument = "gauge" /\ method = "decrement"   -> "decrement_gauge"
      [] instrument = "gauge" /\ method = "set"         -> "set_gauge"
      [] instrument = "histogram" /\ method = "record"  -> "record_histogram"

\* Handle::push_metric: the MetricData of the handle's key and the
\* operation, handed to write_event.
PushedEvent(h, method, value) ==
    Metric(h.key.name, Collect(h.key.labels), MethodOp(h.instrument, method), value)

\* An update method called on handle i of the caller's recorder.
UpdateCall(k, i, method, value) ==
    LET c == ConnOf(k)
    IN /\ i \in 1..Len(handles[c])
       /\ method \in Methods[handles[c][i].instrument]
       /\ value \in UpdateValues[handles[c][i].instrument]
       /\ CallBody(k, PushedEvent(handles[c][i], method, value), MaxUpdates)
       /\ updates' = [updates EXCEPT ![c] =
                          Append(@, [handle |-> i, method |-> method, value |-> value])]
       /\ UNCHANGED handles
       /\ UNCHANGED <<cfgVars, lifeVars, codecVars, keyVars, pipeVars, bridgeVars>>

UpdateNext ==
    \/ \E i \in Instruments, key \in HandleKeys : RegisterCall(1, i, key)
    \/ \E k \in CallersOf(1), i \in 1..MaxHandles, m \in UNION {Methods[x] : x \in Instruments},
           v \in UNION {UpdateValues[x] : x \in Instruments} : UpdateCall(k, i, m, v)
    \/ \E k \in Callers : Lock(k)
    \/ \E k \in Callers : WriteAll(k)
    \/ Accept(1)
    \/ ReadFrame(1)

UpdateSpec == Init /\ [][UpdateNext]_vars

(***************************************************************************)
(* Properties.                                                             *)
(***************************************************************************)
\* The read loop of c runs and has nothing left to read, and no call on c
\* is under way.
Quiet(c) ==
    /\ rstate[c] = "running"
    /\ wire[c] = <<>>
    /\ pend[c] = <<>>
    /\ \A k \in CallersOf(c) : cpc[k] = "idle"

IsGarbage(x) == x.type = "garbage"

ValidOf(s) == SelectSeq(s, LAMBDA x : ~IsGarbage(x))

IsPrefix(a, b) == Len(a) <= Len(b) /\ SubSeq(b, 1, Len(a)) = a

\* The frames of the entries of fs, end to end.
RECURSIVE AllFrames(_)
AllFrames(fs) ==
    IF fs = <<>> THEN <<>> ELSE FrameOf(Head(fs)) \o AllFrames(Tail(fs))

\* s is the frames of some entries of fs, in their order, end to end.
RECURSIVE IsFrames(_, _)
IsFrames(s, fs) ==
    \/ s = <<>>
    \/ \E j \in 1..Len(fs) :
          /\ IsPrefix(FrameOf(fs[j]), s)
          /\ IsFrames(SubSeq(s, Len(FrameOf(fs[j])) + 1, Len(s)),
                      SubSeq(fs, j + 1, Len(fs)))

\* C1: on a connection whose calls were made one after another and that
\* carries no foreign frame, once everything written has been read the
\* bridge has received exactly the events of the calls, in call order.
C1_SequentialCallsDelivered ==
    \A c \in ActiveConns :
        (Quiet(c) /\ ~overlap[c] /\ ValidOf(sent[c]) = sent[c])
            => dispatched[c] = called[c]

\* Every frame begun on c went whole onto the transport.
WroteWhole(c) == stream[c] = AllFrames(sent[c])

\* C2: with a producer on each connection of the named channel, each having
\* written whole frames of events and no foreign frame, once everything has
\* been read every connection's dispatched events are the events sent on
\* it, in send order (so the total is the number of events sent).
C2_ConcurrentProducersDelivered ==
    (/\ transport = "socket"
     /\ \A c \in Conns : /\ Quiet(c) /\ WroteWhole(c)
                         /\ sent[c] # <<>> /\ ValidOf(sent[c]) = sent[c])
        => \A c \in Conns : dispatched[c] = sent[c]

\* C3: the bytes the encoder makes of an event hold no terminator byte.
C3_NoTerminatorInEncoding ==
    cBytes # <<>> => ~HasTerm(cBytes[1])

\* C4: whenever no write is under way on an endpoint, the bytes written to
\* it so far are whole frames of events passed to write_event, end to end.
C4_StreamIsWholeFrames ==
    \A c \in ActiveConns : LockFree(c) => IsFrames(stream[c], sent[c])

\* C5: a connection on which a read returned an error has its read loop
\* terminated.
C5_ReadErrorEndsLoop ==
    \A c \in ActiveConns : errs[c] >= 1 => rstate[c] = "stopped"

\* C6: a connection that carried a whole valid frame, a corrupted frame and
\* a whole valid frame has, once everything has been read, dispatched
\* exactly the two valid events in order.
C6_CorruptFrameOnlyDiscarded ==
    \A c \in ActiveConns :
        (/\ Quiet(c) /\ WroteWhole(c)
         /\ Len(sent[c]) = 3
         /\ ~IsGarbage(sent[c][1]) /\ IsGarbage(sent[c][2]) /\ ~IsGarbage(sent[c][3]))
            => dispatched[c] = <<sent[c][1], sent[c][3]>>

\* C7: in either build, once the calls made on a pipe-bound recorder have
\* returned, one frame per call has been written to the pipe, in call order.
C7_PipeCallWritesFrame ==
    (/\ transport = "pipe"
     /\ ~overlap[1]
     /\ \A k \in CallersOf(1) : cpc[k] = "idle")
        => /\ ValidOf(sent[1]) = called[1]
           /\ stream[1] = AllFrames(sent[1])

\* C8: once the named-channel collector has stopped, by the listener
\* returning or by being abandoned, no file exists at /tmp/<name>.
C8_NoFileAfterStop ==
    lpc \in {"exited", "abandoned"} => ~fileAt

\* C9: if the listener could not be created, start_collecting returned an
\* error.
C9_SetupFailureReturned ==
    lpc \in {"failed", "exited"} => started = "Err"

\* C10: a call that holds the endpoint lock can always take its next step
\* by itself, whatever the collector has or has not done.
C10_CallCanProceed ==
    \A k \in ActiveCallers : cpc[k] \in {"payload", "term"} => ENABLED WriteAll(k)

\* The read loop of d waits for bytes its producer has not sent: nothing, or
\* a frame without its end.
Stalled(d) ==
    /\ rstate[d] = "running"
    /\ sendOpen[d]
    /\ ~HasTerm(pend[d] \o wire[d])

\* The first frame that waits on c.
HeadFrame(c) ==
    SubSeq(pend[c] \o wire[c], 1, FirstTerm(pend[c] \o wire[c]))

\* A whole frame of an event waits on c.
EventWaits(c) == FrameWaits(c) /\ Decode(HeadFrame(c)).ok

\* C11: whatever the other connections do (their producers may send nothing
\* or stop inside a frame for ever), a connection that waits to be accepted
\* is accepted, and an event whose whole frame waits on a connection is
\* dispatched.
C11_StalledConnectionBlocksNoOther ==
    \A c \in Conns :
        /\ (c \in ActiveConns /\ rstate[c] = "pending") ~> (rstate[c] = "running")
        /\ \A n \in 0..MaxCalls :
               (EventWaits(c) /\ Len(dispatched[c]) = n)
                   ~> (Len(dispatched[c]) = n + 1)

\* The producer of connection 1 has stopped between a payload and its
\* terminator, the read loop of connection 1 holds the payload, and
\* connection 2 has been accepted and has had an event dispatched.
C11_Witness ==
    /\ Stalled(1)
    /\ pend[1] \o wire[1] # <<>>
    /\ \E k \in CallersOf(1) : cpc[k] = "term"
    /\ dispatched[2] # <<>>

\* The read of c at the end of a stream whose bytes are all processed, with
\* the loop stopped by it.
EofStops(c) == ReadEof(c) /\ rstate'[c] = "stopped"

\* C12: once the producer has closed its end and every byte written has
\* been processed, the next read stops the read loop; a stopped loop saw no
\* read error and left nothing unread, it stays stopped and dispatches
\* nothing more, and the listener can still accept the other connections.
C12_EndOfStreamStopsLoop ==
    /\ [](\A c \in ActiveConns :
            /\ (rstate[c] = "running" /\ ~sendOpen[c] /\ pend[c] \o wire[c] = <<>>)
                   => ENABLED EofStops(c)
            /\ rstate[c] = "stopped"
                   => /\ ~sendOpen[c] /\ errs[c] = 0
                      /\ pend[c] \o wire[c] = <<>>
                      /\ \A d \in ActiveConns \ {c} :
                             rstate[d] = "pending" => ENABLED Accept(d))
    /\ [][\A c \in ActiveConns :
            rstate[c] = "stopped"
                => rstate'[c] = "stopped" /\ dispatched'[c] = dispatched[c]]_vars

\* A read loop has stopped at the end of its stream after it dispatched the
\* events of all the calls made on it.
C12_Witness ==
    \E c \in ActiveConns :
        /\ rstate[c] = "stopped"
        /\ dispatched[c] # <<>>
        /\ dispatched[c] = called[c]

\* C13: after accept failures the listener still listens, a connection
\* that waits to be accepted is accepted, and an event whose whole frame
\* waits on a connection is dispatched.
C13_AcceptFailureKeepsListener ==
    /\ [](acceptErrs >= 1 => lpc = "listening")
    /\ \A c \in Conns :
           /\ (acceptErrs >= 1 /\ c \in ActiveConns /\ rstate[c] = "pending")
                  ~> (rstate[c] = "running")
           /\ \A n \in 0..MaxCalls :
                  (acceptErrs >= 1 /\ EventWaits(c) /\ Len(dispatched[c]) = n)
                      ~> (Len(dispatched[c]) = n + 1)

\* Accept has failed as often as the bound allows, every connection has
\* its read loop and one of them has had an event dispatched.
C13_Witness ==
    /\ acceptErrs = MaxAcceptErrs
    /\ \A c \in Conns : rstate[c] = "running"
    /\ \E c \in Conns : dispatched[c] # <<>>

\* C14: the decoder makes of the encoder's bytes for a Metric event the
\* same event: name, labels, operation and value.
C14_MetricRoundTrip ==
    (cBack # <<>> /\ cIn.type = "metric") => cBack[1] = Decoded(cIn)

\* SetCounter(u64::MAX) on a metric with two labels has gone through the
\* encoder and the decoder.
C14_Witness ==
    /\ cBack # <<>>
    /\ cIn.type = "metric"
    /\ cIn.op = "set_counter" /\ cIn.value = U64Max
    /\ cIn.labels = L_two
    /\ cBack[1].ok

\* C15: the decoder makes of the encoder's bytes for a Metadata event the
\* same event: name, kind, description and unit, the unit present or absent.
C15_MetadataRoundTrip ==
    (cBack # <<>> /\ cIn.type = "metadata") => cBack[1] = Decoded(cIn)

\* No key is given twice in the labels.
DistinctKeys(pairs) ==
    \A i, j \in DOMAIN pairs : pairs[i][1] = pairs[j][1] => i = j

BothPushed == kFrames[1] # <<>> /\ kFrames[2] # <<>>

\* C16 as stated: the emitter makes the same frame of a key whose labels
\* are given in any order.
C16_SameFrameInAnyOrder ==
    BothPushed => kFrames[1] = kFrames[2]

\* C16: the frame depends only on the map the labels collect into.  Labels
\* with distinct keys give the same frame in any order; when a key is given
\* more than once its last value is the one sent, so two orders give the
\* same frame exactly when each key's last value is the same in both.
C16_FrameOfCollectedLabels ==
    BothPushed =>
        /\ DistinctKeys(kFirst) => kFrames[1] = kFrames[2]
        /\ kFrames[1] = kFrames[2] <=> Collect(kFirst) = Collect(kSecond)

\* Three labels with distinct keys were given in two different orders and
\* both keys were updated.
C16_Witness ==
    /\ BothPushed
    /\ Len(kFirst) = MaxLabels
    /\ DistinctKeys(kFirst)
    /\ kFirst # kSecond

\* Process p has just made a build call on the named channel.
Built(p) ==
    /\ Len(results'[p]) > Len(results[p])
    /\ via'[p][Len(via'[p])] = "socket"

LastResult(p) == results'[p][Len(results'[p])]

OnlyIo(p) == \A i \in DOMAIN results[p] : results[p][i] = "Io"

\* C17: a build made while no collector listens on the name returns the Io
\* error and sets no global recorder and opens no connection; a process
\* whose builds have all failed so has no recorder set, and its next build,
\* made while the collector listens, returns Ok.
C17_NoListenerBuildFails ==
    /\ [](\A p \in Procs : OnlyIo(p) => ~installed[p] /\ endpoint[p] = NoEndpoint)
    /\ [][\A p \in Procs : Built(p) =>
            /\ lpc # "listening" =>
                   /\ LastResult(p) = "Io"
                   /\ installed' = installed
                   /\ endpoint' = endpoint
                   /\ opened' = opened
            /\ (lpc = "listening" /\ OnlyIo(p)) =>
                   /\ LastResult(p) = "Ok"
                   /\ installed'[p]
                   /\ endpoint'[p] = SocketEndpoint(opened')]_vars

\* A process built before the listener was bound, failed, and built again
\* with success once it was.
C17_Witness ==
    \E p \in Procs :
        /\ Len(results[p]) >= 2
        /\ results[p][1] = "Io"
        /\ results[p][2] = "Ok"
        /\ installed[p]

OkCount(p) == Cardinality({i \in DOMAIN results[p] : results[p][i] = "Ok"})

\* C18 as stated: at most one build of a process returns Ok, and every build
\* made after it returns the Recorder error.
C18_LaterBuildsReturnRecorder ==
    \A p \in Procs :
        /\ OkCount(p) <= 1
        /\ \A i, j \in DOMAIN results[p] :
               (i < j /\ results[p][i] = "Ok") => results[p][j] = "Recorder"

\* C18: at most one build of a process returns Ok.  Every build made after
\* it fails and leaves the recorder and its endpoint as they were: a build
\* on a send end returns the Recorder error; a build on the named channel
\* returns the Io error when it cannot connect, as it connects before it
\* sets the recorder, and the Recorder error when it can.
C18_OneRecorderPerProcess ==
    /\ [](\A p \in Procs : OkCount(p) <= 1 /\ (installed[p] <=> OkCount(p) = 1))
    /\ [][\A p \in Procs :
            (installed[p] /\ Len(results'[p]) > Len(results[p])) =>
                /\ installed'[p]
                /\ endpoint'[p] = endpoint[p]
                /\ LastResult(p) =
                       IF via'[p][Len(via'[p])] = "socket" /\ lpc # "listening"
                       THEN "Io" ELSE "Recorder"]_vars

\* A process built with success, then built on the named channel after the
\* collector had gone and on a send end.
C18_Witness ==
    \E p \in Procs :
        /\ Len(results[p]) = 3
        /\ results[p][1] = "Ok"
        /\ \E i \in 2..3 : results[p][i] = "Io"
        /\ \E i \in 2..3 : results[p][i] = "Recorder" /\ via[p][i] = "pipe"

\* C19: when a process builds twice on the same named channel and the
\* first build succeeds, the second, made while the collector listens,
\* succeeds too: it is not refused as a registration conflict.
C19_SecondBuildSucceeds ==
    \A p \in Procs : \A i, j \in DOMAIN results[p] :
        (/\ i < j
         /\ via[p][i] = "socket" /\ via[p][j] = "socket"
         /\ results[p][i] = "Ok") => results[p][j] # "Recorder"

\* C20: at every moment at most one object holds a usable send end of a
\* pipe and at most one a usable receive end: never the Sender together
\* with its handle or the PipeSender made from it, never the collector
\* together with its read loop; a pipe has at most one recorder and one
\* read loop, and the installed recorder is the only holder of its pipe's
\* send end.
C20_OneOwnerPerEnd ==
    \A q \in Pipes :
        /\ Cardinality(pheld[q] \cap SendEnds) <= 1
        /\ Cardinality(pheld[q] \cap RecvEnds) <= 1
        /\ ~pmade[q] => pheld[q] = {}
        /\ "recorder" \in pheld[q] <=> precorder = q

\* The send end went through export and import while the read loop of the
\* pipe was running, and the other pipe's send end is in the recorder.
C20_Witness ==
    \E q, r \in Pipes :
        /\ pheld[q] = {"loop", "imported"}
        /\ pheld[r] = {"loop", "recorder"}

\* C21: bytes that no terminator follows when the stream of a connection
\* has reached its end are not decoded: the turn of the read loop that
\* meets them dispatches no event.
C21_UnterminatedNeverDispatched ==
    [][\A c \in Conns :
          (~sendOpen[c] /\ ~HasTerm(pend[c] \o wire[c])) =>
              dispatched'[c] = dispatched[c]]_vars

\* C22: however the bytes of a connection were split into reads, once the
\* whole frames written to it have all been read, each has been dispatched
\* exactly once, in the order written.
C22_SplitReadsLoseNothing ==
    \A c \in ActiveConns :
        (Quiet(c) /\ WroteWhole(c)) => dispatched[c] = sent[c]

\* The last frame begun on c went whole onto the transport, as the last
\* bytes written to it.
LastWroteWhole(c) ==
    /\ sent[c] # <<>>
    /\ LET f == FrameOf(sent[c][Len(sent[c])])
       IN /\ Len(f) <= Len(stream[c])
          /\ SubSeq(stream[c], Len(stream[c]) - Len(f) + 1, Len(stream[c])) = f

\* C23: after a write that failed part-way, the next event written whole on
\* the same endpoint is decoded by a collector that kept every byte as
\* itself: once everything has been read it is the last event dispatched.
C23_NextFrameAfterFailedWrite ==
    \A c \in ActiveConns :
        (/\ ~ReaderNonBlocking
         /\ Quiet(c)
         /\ ~WroteWhole(c)
         /\ LastWroteWhole(c)
         /\ E_inc1 \in {sent[c][i] : i \in 1..(Len(sent[c]) - 1)}
         /\ sent[c][Len(sent[c])] = E_inc3)
            => /\ dispatched[c] # <<>>
               /\ dispatched[c][Len(dispatched[c])] = E_inc3

\* C25: a build on the named channel made after start_collecting returned
\* Ok, while the collector runs and its name can be bound, connects: it
\* does not return the Io error.
C25_BuildAfterStartConnects ==
    [][\A p \in Procs :
          (/\ Built(p)
           /\ started = "Ok"
           /\ lpc \in {"spawned", "listening"}
           /\ bindable /\ (namespaced \/ ~fileAt)) => LastResult(p) # "Io"]_vars

\* The write that caller k is about to make fails: the reader is gone, or
\* the non-blocking stream cannot take all the bytes.
WriteFails(k) ==
    /\ cpc[k] \in {"payload", "term"}
    /\ \/ rstate[ConnOf(k)] = "stopped"
       \/ NonBlocking /\ Len(crem[k]) > Cap - Len(wire[ConnOf(k)])

\* C26: a call whose write fails returns at once with nothing kept of its
\* event: the caller is idle again, the lock is free, no bytes wait to be
\* written again, and the endpoint and its read loop are as they were; no
\* event is ever begun on the endpoint more often than it was called.
C26_WriteFailureHandledOnce ==
    /\ [](\A c \in ActiveConns : Len(sent[c]) <= Len(called[c]))
    /\ [][\A k \in Callers :
            (WriteFails(k) /\ cpc'[k] # cpc[k]) =>
                /\ cpc'[k] = "idle"
                /\ cev'[k] = <<>> /\ crem'[k] = <<>>
                /\ lock'[ConnOf(k)] = 0
                /\ sendOpen' = sendOpen
                /\ rstate' = rstate
                /\ sent' = sent]_vars

\* A write on connection 1 failed part-way, and a later call wrote its
\* whole frame on the same connection.
C26_Witness ==
    /\ \A k \in Callers : cpc[k] = "idle"
    /\ Len(sent[1]) = MaxTornCalls
    /\ ~WroteWhole(1)
    /\ LastWroteWhole(1)

\* The instrument and the method that the specification gives for an
\* operation.
FacadeOf(op) ==
    CASE op = "increment_counter" -> <<"counter", "increment">>
      [] op = "set_counter"       -> <<"counter", "absolute">>
      [] op = "increment_gauge"   -> <<"gauge", "increment">>
      [] op = "decrement_gauge"   -> <<"gauge", "decrement">>
      [] op = "set_gauge"         -> <<"gauge", "set">>
      [] op = "record_histogram"  -> <<"histogram", "record">>

\* C27: once the bridge has handled a Metric event it has made exactly one
\* call, the update that the operation stands for, on the instrument of the
\* event's name with the event's value; the call is in the plain form
\* exactly when the event has no labels, and otherwise carries exactly the
\* event's key/value pairs.
C27_MetricBecomesOneUpdate ==
    (bPc = "done" /\ bEv[1].type = "metric") =>
        /\ Len(bCalls) = 1
        /\ LET m == bEv[1]
               c == bCalls[1]
           IN /\ c.call = "update"
              /\ <<c.instrument, c.method>> = FacadeOf(m.op)
              /\ c.name = m.name
              /\ c.value = m.value
              /\ c.form = "plain" <=> DOMAIN m.labels = {}
              /\ {c.labels[i] : i \in DOMAIN c.labels}
                     = {<<k, m.labels[k]>> : k \in DOMAIN m.labels}
              /\ Len(c.labels) = Cardinality(DOMAIN m.labels)

\* A SetCounter event with two labels has been handled.
C27_Witness ==
    /\ bPc = "done"
    /\ bEv[1].type = "metric"
    /\ bEv[1].op = "set_counter"
    /\ bEv[1].labels = L_two
    /\ Len(bCalls) = 1

KindInstrument == [Counter |-> "counter", Gauge |-> "gauge", Histogram |-> "histogram"]

\* C28: once the bridge has handled a Metadata event it has made exactly
\* one describe call, on the instrument of the event's kind, with the
\* event's name and description; the call has the form with a unit exactly
\* when the event has a unit and its name is that of a unit, and is the
\* form without a unit otherwise.  When the event came from a describe call
\* made with a unit, the bridge's call has that unit.
C28_MetadataBecomesOneDescribe ==
    /\ (bPc = "done" /\ bEv[1].type = "metadata") =>
        /\ Len(bCalls) = 1
        /\ LET m == bEv[1]
               c == bCalls[1]
               known == m.unit # <<>> /\ m.unit[1] \in {UnitStr[x] : x \in Units}
           IN /\ c.call = "describe"
              /\ c.instrument = KindInstrument[m.kind]
              /\ c.name = m.name
              /\ c.description = m.description
              /\ c.form = "unit" <=> known
              /\ c.form = "plain" <=> ~known
              /\ known => UnitStr[c.unit[1]] = m.unit[1]
              /\ ~known => c.unit = <<>>
              /\ (bFrom.by = "describe" /\ bFrom.unit # <<>>) =>
                     /\ c.unit = bFrom.unit
                     /\ c.name = bFrom.name
                     /\ c.instrument = KindInstrument[bFrom.kind]
                     /\ c.description = bFrom.description
    /\ (bFrom.by = "describe" /\ bFrom.unit # <<>>) => bPc # "lost"

\* A describe_gauge call made with the unit Bytes has reached the bridge
\* and been handled.
C28_Witness ==
    /\ bPc = "done"
    /\ bFrom.by = "describe"
    /\ bFrom.kind = "Gauge"
    /\ bFrom.unit = <<"Bytes">>
    /\ Len(bCalls) = 1
    /\ bCalls[1].form = "unit"

\* An event that names no unit of the facade has been handled.
C28_WitnessUnknownUnit ==
    /\ bPc = "done"
    /\ bFrom.by = "wire"
    /\ bEv[1].type = "metadata"
    /\ bEv[1].unit = <<U_furlongs>>
    /\ Len(bCalls) = 1

\* C29: where names are namespaced, no step of the named-channel collector
\* (start_collecting, the listener's bind, its cleanup, its end) creates or
\* removes the file at /tmp/<name>.
C29_NamespacedLeavesFileAlone ==
    [][namespaced => fileAt' = fileAt]_vars

\* C30: on an endpoint whose calls were made one after another, once every
\* call has returned the bytes written to the transport are exactly one
\* frame for each describe call, in call order, each the Metadata event of
\* its call (a repeated describe writing its frame again), and nothing for
\* the register calls; every handle given out is bound to its recorder's
\* endpoint.
C30_DescribeWritesRegisterDoesNot ==
    \A c \in ActiveConns :
        /\ \A i \in 1..Len(handles[c]) : handles[c][i].endpoint = c
        /\ (~overlap[c] /\ \A k \in CallersOf(c) : cpc[k] = "idle")
               => stream[c] = AllFrames(called[c])

\* C33: the step in which start_collecting returns: if a file existed at
\* /tmp/<name> and could not be removed, an error is returned, no listener
\* thread or task is spawned and the file stays; otherwise Ok is returned,
\* the listener is spawned, and no file is at /tmp/<name> when it is
\* (an existing one was removed, and none was needed).
C33_StaleFileRemovedBeforeListener ==
    [][(started = "none" /\ started' # "none") =>
          IF fileAt /\ ~removable
          THEN started' = "Err" /\ lpc' = "none" /\ fileAt'
          ELSE started' = "Ok" /\ lpc' = "spawned" /\ ~fileAt']_vars

\* start_collecting has returned an error over a file it could not remove,
\* and no listener runs.
C33_Witness ==
    /\ started = "Err"
    /\ lpc = "none"
    /\ fileAt /\ ~removable

\* start_collecting has removed a stale file and spawned the listener.
C33_WitnessRemoved ==
    /\ started = "Ok"
    /\ lpc = "spawned"
    /\ ~fileAt

\* C32: for every event, decoding the frame as the read loop holds it (the
\* encoder's bytes followed by the terminator) succeeds and gives the event.
C32_FrameDecodesToEvent ==
    cOut # <<>> => cOut[1] = Decoded(cIn)

\* The terminator after the encoder's bytes changes nothing of what the
\* decoder makes of them.
TerminatorIgnored ==
    (cOut # <<>> /\ cBack # <<>>) => cOut = cBack

\* The operation the specification gives for a method of an instrument.
OpOfMethod ==
    [counter |-> [increment |-> "increment_counter", absolute |-> "set_counter"],
     gauge |-> [increment |-> "increment_gauge", decrement |-> "decrement_gauge",
                set |-> "set_gauge"],
     histogram |-> [record |-> "record_histogram"]]

\* The labels of a key, which gives no label key twice, as a label set.
KeyLabels(pairs) ==
    [k \in {pairs[i][1] : i \in DOMAIN pairs} |->
        pairs[CHOOSE i \in DOMAIN pairs : pairs[i][1] = k][2]]

\* The Metric event the specification gives for an update of connection c.
UpdateEvent(c, u) ==
    LET h == handles[c][u.handle]
    IN Metric(h.key.name, KeyLabels(h.key.labels),
              OpOfMethod[h.instrument][u.method], u.value)

UpdateEvents(c) == [n \in 1..Len(updates[c]) |-> UpdateEvent(c, updates[c][n])]

\* C31: on an endpoint whose update calls were made one after another, once
\* every call has returned the bytes written to the transport are exactly
\* one frame for each update, in call order, each the Metric event with the
\* name and labels of the key its handle was registered with, the operation
\* of the method called and the value given.
C31_UpdateWritesOneFrame ==
    \A c \in ActiveConns :
        (~overlap[c] /\ \A k \in CallersOf(c) : cpc[k] = "idle")
            => stream[c] = AllFrames(UpdateEvents(c))

=============================================================================
